---- MODULE Spec2Model ----
(***************************************************************************)
(* A model of src/main.py: the Flask handler slack_trigger, the formatter  *)
(* format_slack_message and the client invoke_api_call.                    *)
(*                                                                         *)
(* One request is followed from its arrival to its response.  Every loop   *)
(* iteration of the source that performs an HTTP call is one action; the   *)
(* outcome of the call (what the remote side answers) is the action's      *)
(* nondeterministic input.                                                 *)
(*                                                                         *)
(* Python values are represented as follows.                               *)
(*   - str and None: TLA+ strings, None being the string None below; a     *)
(*     JSON null and an absent key are both None after dict.get.           *)
(*   - dict: a function whose DOMAIN is the set of keys present.           *)
(*   - list: a sequence.                                                   *)
(*   - the result of invoke_api_call: PyNone or PyDict(d).                 *)
(*   - an f-string: the sequence of its parts, left unconcatenated.        *)
(*   - the str produced by json.dumps: the sequence of its characters.     *)
(* The remote APIs answer with JSON objects whose "items" and              *)
(* "detailedDeploymentsFormatted" members, when present, are lists of      *)
(* objects with string or null members (the data model of the partner API).*)
(***************************************************************************)
EXTENDS Naturals, Sequences, FiniteSets, TLC

VARIABLES
    environ,              \* os.environ: the three variables the handler reads
    form,                 \* the fields of the request's urlencoded body
    pc,                   \* position of the handler: idle, aggregate, format, done
    text,                 \* slack_trigger: text
    i,                    \* slack_trigger: index of config in API_CONFIGS (loop)
    aggregated_results,   \* slack_trigger: aggregated_results
    heap,                 \* the header dicts, by object identity
    j,                    \* format_slack_message: index of env in environments (loop)
    blocks,               \* format_slack_message: blocks
    calls,                \* every outbound HTTP request attempted, in order
    region_results,       \* per region, in order: what the loop body saw
    deployment_results,   \* per environment, in order: deployment_response
    response              \* the (body, status) pair slack_trigger returns

vars ==
    << environ, form, pc, text, i, aggregated_results, heap, j, blocks, calls,
       region_results, deployment_results, response >>

----------------------------------------------------------------------------
(* Bounds of the model *)

\* Most blocks the message of one request holds (its header block included).
MaxBlocks == 5

----------------------------------------------------------------------------
(* Python values *)

None == "<None>"

\* bool(v) for v a str or None
Truthy(v) == v # None /\ v # ""

PyNone == [kind |-> "None"]

PyDict(d) == [kind |-> "dict", d |-> d]

\* bool(r) for r the result of invoke_api_call: None and {} are falsy
TruthyObj(r) == r.kind = "dict" /\ DOMAIN r.d # {}

\* key in r, for r a dict result
HasKey(r, key) == r.kind = "dict" /\ key \in DOMAIN r.d

\* d.get(key)
Get(d, key) == IF key \in DOMAIN d THEN d[key] ELSE None

\* d[key] = value
Put(d, key, value) == (key :> value) @@ d

SeqsUpTo(S, n) == UNION { [1..k -> S] : k \in 0..n }

----------------------------------------------------------------------------
(* Configuration *)

API_CONFIGS ==
    << [BaseUrl |-> "https://partners-us-east1.zeronetworks.com/api/v1/internal",
        KeyName |-> "us_east1_key", Region |-> "us-east1"],
       [BaseUrl |-> "https://partners-eu-west12.zeronetworks.com/api/v1/internal",
        KeyName |-> "eu_west12_key", Region |-> "eu-west12"] >>

DEPLOYMENTS_URI == [path |-> "/deployments", query |-> <<>>]

SLACK_CHANNEL == "C123ABC456"

EnvLimit == 5

\* env_uri: the path and the urlencoded query, kept as its two parameters
EnvUri(t) ==
    [path |-> "/provisioning/environments/",
     query |-> [filters |-> << [id |-> "name", includeValues |-> <<t>>,
                               excludeValues |-> <<>>] >>,
                limit |-> EnvLimit]]

\* The values the process environment may give the variables read.
Environs ==
    { ("us_east1_key" :> a) @@ ("eu_west12_key" :> b) @@ ("SLACK_WEBHOOK_URL" :> w) :
        a \in {None, "", "key-us"}, b \in {None, "", "key-eu"},
        w \in {None, "", "https://hooks.slack.com/services/T/B/X"} }

\* os.environ.get(name)
Getenv(name) == environ[name]

----------------------------------------------------------------------------
(* json.dumps (line 84), and the json.loads a consumer of the button value applies;  *)
(* the decoder is used by the properties only                                     *)

\* The characters of the strings that can reach json.dumps in this model.
CharsOf ==
    ("id" :> <<"i", "d">>)
    @@ ("region" :> <<"r", "e", "g", "i", "o", "n">>)
    @@ ("deployment" :> <<"d", "e", "p", "l", "o", "y", "m", "e", "n", "t">>)
    @@ ("us-east1" :> <<"u", "s", "-", "e", "a", "s", "t", "1">>)
    @@ ("eu-west12" :> <<"e", "u", "-", "w", "e", "s", "t", "1", "2">>)
    @@ ("Unknown ID" :> <<"U", "n", "k", "n", "o", "w", "n", " ", "I", "D">>)
    @@ ("e1" :> <<"e", "1">>)
    @@ ("q\"2" :> <<"q", "\"", "2">>)
    @@ ("d\\2" :> <<"d", "\\", "2">>)
    @@ ("null" :> <<"n", "u", "l", "l">>)
    @@ ("" :> <<>>)

\* The str whose characters are cs (the inverse of CharsOf).
StrOf(cs) ==
    IF \E s \in DOMAIN CharsOf : CharsOf[s] = cs
    THEN CHOOSE s \in DOMAIN CharsOf : CharsOf[s] = cs
    ELSE "<unrepresented>"

RECURSIVE Flatten(_)
Flatten(ss) == IF ss = <<>> THEN <<>> ELSE Head(ss) \o Flatten(Tail(ss))

\* (variant: characters are written unescaped)
EscapeCharRaw(c) == <<c>>

\* The JSON escape of one character.
EscapeChar(c) ==
    IF c = "\"" THEN <<"\\", "\"">>
    ELSE IF c = "\\" THEN <<"\\", "\\">>
    ELSE <<c>>

\* json.dumps of a str given by its characters
EncodeString(cs) ==
    <<"\"">> \o Flatten([n \in 1..Len(cs) |-> EscapeChar(cs[n])]) \o <<"\"">>

\* json.dumps of a str or None
EncodeValue(v) ==
    IF v = None THEN <<"n", "u", "l", "l">> ELSE EncodeString(CharsOf[v])

RECURSIVE EncodeMembers(_)
EncodeMembers(pairs) ==
    IF pairs = <<>> THEN <<>>
    ELSE EncodeString(CharsOf[pairs[1][1]]) \o <<":", " ">> \o EncodeValue(pairs[1][2])
         \o (IF Len(pairs) > 1 THEN <<",", " ">> ELSE <<>>)
         \o EncodeMembers(Tail(pairs))

\* json.dumps of a dict, given as its (key, value) pairs in insertion order
JsonDumps(pairs) == <<"{">> \o EncodeMembers(pairs) \o <<"}">>

DecodeError == [error |-> "JSONDecodeError"]

\* Read a string body from position n (after the opening quote) to its closing quote.
RECURSIVE ReadString(_, _, _)
ReadString(s, n, acc) ==
    IF n > Len(s) THEN DecodeError
    ELSE IF s[n] = "\"" THEN [val |-> StrOf(acc), next |-> n + 1]
    ELSE IF s[n] = "\\"
         THEN IF n + 1 > Len(s) \/ s[n + 1] \notin {"\"", "\\"} THEN DecodeError
              ELSE ReadString(s, n + 2, Append(acc, s[n + 1]))
    ELSE ReadString(s, n + 1, Append(acc, s[n]))

\* Read a value (a string or null) at position n.
ReadValue(s, n) ==
    IF n > Len(s) THEN DecodeError
    ELSE IF s[n] = "\"" THEN ReadString(s, n + 1, <<>>)
    ELSE IF n + 3 <= Len(s) /\ SubSeq(s, n, n + 3) = <<"n", "u", "l", "l">>
         THEN [val |-> None, next |-> n + 4]
    ELSE DecodeError

\* Skip JSON whitespace from position n.
RECURSIVE SkipSpace(_, _)
SkipSpace(s, n) == IF n <= Len(s) /\ s[n] = " " THEN SkipSpace(s, n + 1) ELSE n

\* Read the members of an object from position n; acc is the dict read so far.
RECURSIVE ReadMembers(_, _, _)
ReadMembers(s, n, acc) ==
    LET kpos == SkipSpace(s, n)
        k == IF kpos <= Len(s) /\ s[kpos] = "\"" THEN ReadString(s, kpos + 1, <<>>)
             ELSE DecodeError
    IN  IF k = DecodeError THEN DecodeError
        ELSE LET cpos == SkipSpace(s, k.next)
             IN  IF cpos > Len(s) \/ s[cpos] # ":" THEN DecodeError
                 ELSE LET v == ReadValue(s, SkipSpace(s, cpos + 1))
                      IN  IF v = DecodeError THEN DecodeError
                          ELSE LET e == SkipSpace(s, v.next)
                                   d == Put(acc, k.val, v.val)
                               IN  IF e > Len(s) THEN DecodeError
                                   ELSE IF s[e] = "}"
                                        THEN IF e = Len(s) THEN d ELSE DecodeError
                                   ELSE IF s[e] = ","
                                        THEN ReadMembers(s, e + 1, d)
                                   ELSE DecodeError

\* json.loads of the characters s of a flat JSON object: the dict, or DecodeError
JsonLoads(s) ==
    IF Len(s) < 2 \/ s[1] # "{" THEN DecodeError
    ELSE IF SkipSpace(s, 2) = Len(s) /\ s[Len(s)] = "}" THEN <<>>
    ELSE ReadMembers(s, 2, <<>>)

----------------------------------------------------------------------------
(* What the remote side may answer *)

\* Environment objects the environments API may return.
EnvPool ==
    { [id |-> "e1", name |-> "alpha"],
      [id |-> "q\"2", Name |-> "Beta", name |-> "beta", region |-> "eu-west12",
       _headers |-> "headers@api"],
      [id |-> "", Name |-> ""],
      [Name |-> "", name |-> "gamma"] }

\* Deployment objects the deployments API may return.
DepPool ==
    { [id |-> "d\\2", name |-> "web", state |-> "Primary"],
      [id |-> "null", state |-> "primary"],
      [name |-> ""] }

\* How one requests.get ends: an exception of the transport, a 4xx/5xx status,
\* a body that is not JSON, or a JSON body.
Failures == { [kind |-> "connection_error"], [kind |-> "http_error"], [kind |-> "json_error"] }

\* The JSON objects an API may answer with, its list under key holding at most n objects of pool.
Answers(key, pool, n) ==
    { PyDict(<<>>), PyDict("message" :> "not found") }
    \cup { PyDict(key :> list) : list \in SeqsUpTo(pool, n) }

Outcomes(key, pool, n) ==
    Failures \cup { [kind |-> "ok", json |-> a] : a \in Answers(key, pool, n) }

----------------------------------------------------------------------------
(* invoke_api_call *)

\* The request invoke_api_call sends.
GetRequest(base_url, endpoint, headers) ==
    [method |-> "GET", base_url |-> base_url, endpoint |-> endpoint, headers |-> headers]

\* What invoke_api_call returns when its request ends with outcome.
invoke_api_call(outcome) ==
    IF outcome.kind = "ok" THEN outcome.json ELSE PyNone

----------------------------------------------------------------------------
(* format_slack_message *)

HeaderBlock ==
    [type |-> "header",
     text |-> [type |-> "plain_text", text |-> <<"Select Environment to pull logs">>,
               emoji |-> TRUE]]

Section(parts) == [type |-> "section", text |-> [type |-> "mrkdwn", text |-> parts]]

Emoji(env) == IF Get(env, "region") = "us-east1" THEN ":football:" ELSE ":soccer:"

\* env.get('Name') or env.get('name') or "Unknown Name"
EnvName(env) ==
    IF Truthy(Get(env, "Name")) THEN Get(env, "Name")
    ELSE IF Truthy(Get(env, "name")) THEN Get(env, "name")
    ELSE "Unknown Name"

\* env.get('id') or "Unknown ID"
EnvId(env) == IF Truthy(Get(env, "id")) THEN Get(env, "id") ELSE "Unknown ID"

\* (the backquotes of the source's text are written as ' here)
EnvSection(env) == Section(<<Emoji(env), " '", EnvName(env), " : ", EnvId(env), "'">>)

NoDeploymentsForEnvSection == Section(<<"_No deployments found for this environment._">>)

ErrorSection == Section(<<"*Error fetching deployments.*">>)

NoDeploymentsSection == Section(<<"*No deployments found.*">>)

\* The dict handed to json.dumps, as its (key, value) pairs.
ButtonPayload(env, dep) ==
    << <<"id", EnvId(env)>>, <<"region", Get(env, "region")>>,
       <<"deployment", Get(dep, "id")>> >>

ButtonValue(env, dep) == JsonDumps(ButtonPayload(env, dep))

\* (variant: the state is compared without regard to case)
StyleAnyCase(dep) ==
    IF Get(dep, "state") \in {"Primary", "primary", "PRIMARY"} THEN "primary" ELSE "danger"

Style(dep) == IF Get(dep, "state") = "Primary" THEN "primary" ELSE "danger"

\* dep.get('name') or "Unnamed Deployment"
DepName(dep) == IF Truthy(Get(dep, "name")) THEN Get(dep, "name") ELSE "Unnamed Deployment"

ActionBlock(env, dep) ==
    [type |-> "actions",
     elements |-> << [type |-> "button",
                      text |-> [type |-> "plain_text", emoji |-> TRUE,
                                text |-> <<"Get Logs for ", DepName(dep)>>],
                      value |-> ButtonValue(env, dep),
                      action_id |-> "get_logs",
                      style |-> Style(dep)] >>]

\* (variant: a failed deployments call ends the environment's blocks with no block)
DeploymentBlocksSilent(env, deployment_response) ==
    IF TruthyObj(deployment_response)
       /\ HasKey(deployment_response, "detailedDeploymentsFormatted")
    THEN LET deployments == deployment_response.d["detailedDeploymentsFormatted"]
         IN  IF deployments = <<>> THEN <<NoDeploymentsForEnvSection>>
             ELSE [n \in 1..Len(deployments) |-> ActionBlock(env, deployments[n])]
    ELSE IF deployment_response = PyNone THEN <<>>
    ELSE <<NoDeploymentsSection>>

\* The blocks one iteration appends after the environment's section, given
\* deployment_response.
DeploymentBlocks(env, deployment_response) ==
    IF TruthyObj(deployment_response)
       /\ HasKey(deployment_response, "detailedDeploymentsFormatted")
    THEN LET deployments == deployment_response.d["detailedDeploymentsFormatted"]
         IN  IF deployments = <<>> THEN <<NoDeploymentsForEnvSection>>
             ELSE [n \in 1..Len(deployments) |-> ActionBlock(env, deployments[n])]
    ELSE IF deployment_response = PyNone THEN <<ErrorSection>>
    ELSE <<NoDeploymentsSection>>

\* (variant: without .copy(), deployment_headers is the dict the items share)
DeploymentHeadersShared(env) == Get(env, "_headers")

\* The object deployment_headers names: env.get('_headers', {}).copy() is a new dict.
DeploymentHeadersObject(env) == "deployment_headers"

SlackMessage(bs) == [channel |-> SLACK_CHANNEL, text |-> "Get Support Details", blocks |-> bs]

----------------------------------------------------------------------------
(* slack_trigger *)

\* The form bodies a POST may carry (as the fields of the urlencoded string).
Bodies ==
    { ("user_name" :> "kim"),
      ("text" :> "") @@ ("user_name" :> "kim"),
      ("text" :> "prod") @@ ("user_name" :> "kim") }

\* urllib.parse.parse_qs: fields with a blank value are dropped, each value is a list
ParseQs(data) == [k \in {f \in DOMAIN data : data[f] # ""} |-> <<data[k]>>]

\* body.get('text', [None])[0]
TextOf(body) == IF "text" \in DOMAIN body THEN body["text"][1] ELSE None

\* (variant: the check for a missing text is left out)
TextMissingUnchecked(t) == FALSE

\* not text
TextMissing(t) == ~Truthy(t)

\* (variant: secret_value is None, which lets an empty credential through)
SecretMissingOnlyUnset(secret_value) == secret_value = None

\* not secret_value
SecretMissing(secret_value) == ~Truthy(secret_value)

\* The identity of the dict headers built in the iteration for API_CONFIGS[n].
HeadersObject(n) == <<"headers@1", "headers@2">>[n]

\* headers = {"Authorization": secret_value, "content-type": "application/json"}
Headers(secret_value) ==
    ("Authorization" :> secret_value) @@ ("content-type" :> "application/json")

\* item['region'] = ...; item['_baseUrl'] = ...; item['_headers'] = headers
Tag(item, config, headers_object) ==
    Put(Put(Put(item, "region", config.Region), "_baseUrl", config.BaseUrl),
        "_headers", headers_object)

\* (variant: the region's items are put in front of the earlier regions' items)
ExtendInFront(results, items, config, headers_object) ==
    [n \in 1..Len(items) |-> Tag(items[n], config, headers_object)] \o results

\* aggregated_results after the loop over response_obj['items']
Extend(results, items, config, headers_object) ==
    results \o [n \in 1..Len(items) |-> Tag(items[n], config, headers_object)]

\* if response_obj and "items" in response_obj
HasItems(response_obj) == TruthyObj(response_obj) /\ HasKey(response_obj, "items")

\* (variant: the formatter and the publisher run whatever was found)
HasResultsAlways(results) == TRUE

\* if aggregated_results
HasResults(results) == results # <<>>

\* (variant: SLACK_WEBHOOK_URL is None, which lets an empty URL through)
WebhookMissingOnlyUnset(url) == url = None

\* not SLACK_WEBHOOK_URL
WebhookMissing(url) == ~Truthy(url)

\* How requests.post and raise_for_status end.
PostOutcomes == { "ok", "connection_error", "http_error" }

\* (variant: without raise_for_status, only the transport raises)
PostRaisesTransportOnly(outcome) == outcome = "connection_error"

\* requests.post or slack_response.raise_for_status() raises
PostRaises(outcome) == outcome \in {"connection_error", "http_error"}

\* The request requests.post sends, with how it ended.
PostRequest(url, message, outcome) ==
    [method |-> "POST", url |-> url,
     headers |-> ("Content-Type" :> "application/json"), json |-> message,
     outcome |-> outcome]

\* jsonify({"response_type": "ephemeral", "text": ...}), status
Ephemeral(parts, status) ==
    [status |-> status, body |-> [response_type |-> "ephemeral", text |-> parts]]

\* (the backquotes of the source's text are written as ' here)
UsageResponse ==
    Ephemeral(<<"Please provide an environment name to search for. Usage: '/your-command <env-name>'">>,
              200)

NoResultsResponse(t) == Ephemeral(<<"No results found for '", t, "' in any region.">>, 200)

MisconfiguredResponse ==
    Ephemeral(<<"Error: The Slack webhook is not configured on the server.">>, 500)

\* str(n), as its decimal digits
RECURSIVE Digits(_)
Digits(n) ==
    IF n < 10 THEN << <<"0", "1", "2", "3", "4", "5", "6", "7", "8", "9">>[n + 1] >>
    ELSE Digits(n \div 10) \o Digits(n % 10)

FoundResponse(n) ==
    Ephemeral(<<"Found ">> \o Digits(n)
              \o <<" matching environments. Details sent to the designated channel.">>,
              200)

CriticalResponse ==
    Ephemeral(<<"A critical error occurred while processing your request.">>, 500)

NoResponse == [status |-> 0, body |-> <<>>]

Init ==
    /\ environ \in Environs
    /\ form = <<>>
    /\ pc = "idle"
    /\ text = None
    /\ i = 1
    /\ aggregated_results = <<>>
    /\ heap = <<>>
    /\ j = 1
    /\ blocks = <<>>
    /\ calls = <<>>
    /\ region_results = <<>>
    /\ deployment_results = <<>>
    /\ response = NoResponse

\* Lines 138-157: the body is parsed; without a text the usage message is returned,
\* otherwise the loop over API_CONFIGS starts.
Receive(data) ==
    /\ pc = "idle"
    /\ form' = data
    /\ LET t == TextOf(ParseQs(data))
       IN  IF TextMissing(t)
           THEN /\ response' = UsageResponse
                /\ pc' = "done"
                /\ UNCHANGED text
           ELSE /\ text' = t
                /\ pc' = "aggregate"
                /\ UNCHANGED response
    /\ UNCHANGED << environ, i, aggregated_results, heap, j, blocks, calls,
                    region_results, deployment_results >>

\* Lines 158-163: one iteration of the loop whose region has no credential.
SkipRegion ==
    /\ pc = "aggregate"
    /\ i <= Len(API_CONFIGS)
    /\ SecretMissing(Getenv(API_CONFIGS[i].KeyName))
    /\ region_results' = Append(region_results, [config |-> i, skipped |-> TRUE])
    /\ i' = i + 1
    /\ UNCHANGED << environ, form, pc, text, aggregated_results, heap, j, blocks, calls,
                    deployment_results, response >>

\* Lines 158-177: one iteration of the loop that queries its region.
QueryRegion(outcome) ==
    /\ pc = "aggregate"
    /\ i <= Len(API_CONFIGS)
    /\ ~SecretMissing(Getenv(API_CONFIGS[i].KeyName))
    /\ LET config == API_CONFIGS[i]
           headers == Headers(Getenv(config.KeyName))
           response_obj == invoke_api_call(outcome)
       IN  /\ heap' = Put(heap, HeadersObject(i), headers)
           /\ calls' = Append(calls, GetRequest(config.BaseUrl, EnvUri(text), headers))
           /\ region_results' =
                  Append(region_results,
                         [config |-> i, skipped |-> FALSE, response_obj |-> response_obj])
           /\ aggregated_results' =
                  IF HasItems(response_obj)
                  THEN Extend(aggregated_results, response_obj.d["items"],
                              config, HeadersObject(i))
                  ELSE aggregated_results
    /\ i' = i + 1
    /\ UNCHANGED << environ, form, pc, text, j, blocks, deployment_results, response >>

\* Lines 179-182 and 201-205, 44-51: after the loop, either the "no results" response
\* or the start of format_slack_message.
EndAggregation ==
    /\ pc = "aggregate"
    /\ i > Len(API_CONFIGS)
    /\ IF HasResults(aggregated_results)
       THEN /\ blocks' = <<HeaderBlock>>
            /\ j' = 1
            /\ pc' = "format"
            /\ UNCHANGED response
       ELSE /\ response' = NoResultsResponse(text)
            /\ pc' = "done"
            /\ UNCHANGED << blocks, j >>
    /\ UNCHANGED << environ, form, text, i, aggregated_results, heap, calls,
                    region_results, deployment_results >>

\* Lines 53-118: one iteration of the formatter's loop over environments.
FormatEnvironment(outcome) ==
    /\ pc = "format"
    /\ j <= Len(aggregated_results)
    /\ LET env == aggregated_results[j]
           obj == DeploymentHeadersObject(env)
           deployment_headers == Put(heap[Get(env, "_headers")], "zn-env-id", EnvId(env))
           deployment_response == invoke_api_call(outcome)
       IN  /\ heap' = Put(heap, obj, deployment_headers)
           /\ calls' = Append(calls, GetRequest(Get(env, "_baseUrl"), DEPLOYMENTS_URI,
                                                heap'[obj]))
           /\ deployment_results' = Append(deployment_results, deployment_response)
           /\ blocks' = Append(blocks, EnvSection(env))
                        \o DeploymentBlocks(env, deployment_response)
    /\ j' = j + 1
    /\ UNCHANGED << environ, form, pc, text, i, aggregated_results, region_results, response >>

\* Lines 120-124, 183-190: the message is built, and no webhook URL is configured.
RefuseUnconfigured ==
    /\ pc = "format"
    /\ j > Len(aggregated_results)
    /\ WebhookMissing(Getenv("SLACK_WEBHOOK_URL"))
    /\ response' = MisconfiguredResponse
    /\ pc' = "done"
    /\ UNCHANGED << environ, form, text, i, aggregated_results, heap, j, blocks, calls,
                    region_results, deployment_results >>

\* Lines 120-124, 183-200, 207-212: the message is built and posted; a failed post
\* raises into the handler's except clause.
Publish(outcome) ==
    /\ pc = "format"
    /\ j > Len(aggregated_results)
    /\ ~WebhookMissing(Getenv("SLACK_WEBHOOK_URL"))
    /\ calls' = Append(calls, PostRequest(Getenv("SLACK_WEBHOOK_URL"), SlackMessage(blocks),
                                           outcome))
    /\ response' = IF PostRaises(outcome) THEN CriticalResponse
                   ELSE FoundResponse(Len(aggregated_results))
    /\ pc' = "done"
    /\ UNCHANGED << environ, form, text, i, aggregated_results, heap, j, blocks,
                    region_results, deployment_results >>

\* Most environments the regions still to query can return: each takes two blocks.
EnvRoom == (MaxBlocks - 1) \div 2 - Len(aggregated_results)

\* Most deployments the environment at j can have: the environments after it take
\* two blocks each, its own section one.
DepRoom == MaxBlocks - Len(blocks) - 1 - 2 * (Len(aggregated_results) - j)

Next ==
    \/ \E data \in Bodies : Receive(data)
    \/ SkipRegion
    \/ \E outcome \in Outcomes("items", EnvPool, EnvRoom) : QueryRegion(outcome)
    \/ EndAggregation
    \/ \E outcome \in Outcomes("detailedDeploymentsFormatted", DepPool, DepRoom) :
           FormatEnvironment(outcome)
    \/ RefuseUnconfigured
    \/ \E outcome \in PostOutcomes : Publish(outcome)

Spec == Init /\ [][Next]_vars

----------------------------------------------------------------------------
(* Properties *)

IsGet(c) == c.method = "GET"

IsPost(c) == c.method = "POST"

\* The positions in calls of the webhook POSTs.
Posts == { n \in 1..Len(calls) : IsPost(calls[n]) }

\* The positions in calls of the GETs sent to base_url.
GetsTo(base_url) == { n \in 1..Len(calls) : IsGet(calls[n]) /\ calls[n].base_url = base_url }

Credential(n) == environ[API_CONFIGS[n].KeyName]

\* The items region n returned, as the API returned them: none when the region was
\* skipped, its call failed, or its answer holds no "items".
Returned(n) ==
    LET r == region_results[n]
    IN  IF r.skipped THEN <<>>
        ELSE IF r.response_obj.kind = "dict" /\ "items" \in DOMAIN r.response_obj.d
             THEN r.response_obj.d["items"]
        ELSE <<>>

AggregationOver == Len(region_results) = Len(API_CONFIGS)

\* C1: a request with a text whose regions all were skipped, failed or returned no
\* items is answered 200 with the "No results found" message, and no webhook POST
\* is made.
C1_NoResults ==
    (pc = "done" /\ text # None /\ AggregationOver
     /\ \A n \in 1..Len(API_CONFIGS) : Returned(n) = <<>>)
    => /\ response.status = 200
       /\ response.body.response_type = "ephemeral"
       /\ response.body.text = <<"No results found for '", text, "' in any region.">>
       /\ Posts = {}

\* C1's case: one region skipped, the other queried in vain, and the response sent.
C1_Witness ==
    /\ pc = "done" /\ text = "prod" /\ AggregationOver
    /\ region_results[1].skipped
    /\ ~region_results[2].skipped /\ region_results[2].response_obj = PyNone
    /\ response.status = 200

\* C2: a region whose credential is unset or empty is never called and contributes
\* no item, and the other regions are still processed: each of them with a
\* credential is called once the loop is over.
C2_SkippedRegion ==
    \A n \in 1..Len(API_CONFIGS) :
        Credential(n) \in {None, ""}
        => /\ GetsTo(API_CONFIGS[n].BaseUrl) = {}
           /\ \A k \in 1..Len(aggregated_results) :
                  /\ aggregated_results[k]["region"] # API_CONFIGS[n].Region
                  /\ aggregated_results[k]["_baseUrl"] # API_CONFIGS[n].BaseUrl
           /\ (text # None /\ pc \in {"format", "done"})
              => /\ AggregationOver
                 /\ \A m \in 1..Len(API_CONFIGS) :
                        Credential(m) \notin {None, ""}
                        => \E c \in GetsTo(API_CONFIGS[m].BaseUrl) :
                               calls[c].endpoint = EnvUri(text)

\* C2's case: the first region has an empty credential, the second is queried after
\* it and contributes an item.
C2_Witness ==
    /\ pc = "done"
    /\ Credential(1) = "" /\ Credential(2) = "key-eu"
    /\ Len(region_results) = 2 /\ region_results[1].skipped
    /\ Len(aggregated_results) = 1

\* C3: with at least one environment aggregated and SLACK_WEBHOOK_URL unset or
\* empty, the request is answered 500 with the misconfiguration message and no
\* POST is attempted.
C3_WebhookUnset ==
    (Getenv("SLACK_WEBHOOK_URL") \in {None, ""})
    => /\ Posts = {}
       /\ (pc = "done" /\ AggregationOver /\ \E n \in 1..Len(API_CONFIGS) : Returned(n) # <<>>)
          => /\ response.status = 500
             /\ response.body.response_type = "ephemeral"
             /\ response.body.text =
                    <<"Error: The Slack webhook is not configured on the server.">>

\* C3's case: environments were found and formatted, the URL is empty, the response
\* is sent.
C3_Witness ==
    /\ pc = "done" /\ Getenv("SLACK_WEBHOOK_URL") = ""
    /\ Len(aggregated_results) = 2 /\ Len(deployment_results) = 2
    /\ response.status = 500

\* C4: a body without a text field, or with an empty one, is answered 200 with the
\* usage message, and no call is made: no search, no deployments query, no POST.
C4_MissingText ==
    (pc # "idle" /\ ("text" \notin DOMAIN form \/ form["text"] = ""))
    => /\ pc = "done"
       /\ response.status = 200
       /\ response.body.response_type = "ephemeral"
       /\ response.body.text =
              <<"Please provide an environment name to search for. Usage: '/your-command <env-name>'">>
       /\ calls = <<>>

\* C4's case: a body with an empty text field has been answered, with both
\* credentials and the webhook configured.
C4_Witness ==
    /\ pc = "done" /\ "text" \in DOMAIN form /\ form["text"] = ""
    /\ Credential(1) = "key-us" /\ Credential(2) = "key-eu"
    /\ response.status = 200

\* C5: with at least one environment aggregated and the webhook URL configured,
\* exactly one POST is made, after the deployments query of every environment;
\* if it succeeds the response is 200 and names the number of aggregated items, if it
\* fails the response is the generic error with status 500; it is never repeated.
C5_Publish ==
    /\ Cardinality(Posts) <= 1
    /\ (pc = "done" /\ text # None /\ aggregated_results # <<>>
        /\ Getenv("SLACK_WEBHOOK_URL") \notin {None, ""})
       => /\ Cardinality(Posts) = 1
          /\ Posts = {Len(calls)}
          /\ Cardinality({ n \in 1..Len(calls) :
                               IsGet(calls[n]) /\ calls[n].endpoint.path = "/deployments" })
             = Len(aggregated_results)
          /\ calls[Len(calls)].url = Getenv("SLACK_WEBHOOK_URL")
          /\ calls[Len(calls)].json.blocks = blocks
          /\ IF calls[Len(calls)].outcome = "ok"
             THEN /\ response.status = 200
                  /\ response.body.response_type = "ephemeral"
                  /\ response.body.text =
                         <<"Found ", <<"0", "1", "2", "3", "4", "5", "6", "7", "8", "9">>
                                         [Len(aggregated_results) + 1],
                           " matching environments. Details sent to the designated channel.">>
             ELSE /\ response.status = 500
                  /\ response.body.response_type = "ephemeral"
                  /\ response.body.text =
                         <<"A critical error occurred while processing your request.">>

\* C5's case: the POST of a two-environment message was answered with an error status.
C5_Witness ==
    /\ pc = "done" /\ Len(aggregated_results) = 2
    /\ Posts # {} /\ calls[Len(calls)].outcome = "http_error"
    /\ response.status = 500

\* The number of environments the formatter has gone through.
Processed == Len(deployment_results)

\* The deployments the deployments API returned for environment k.
Deployments(k) ==
    LET r == deployment_results[k]
    IN  IF r.kind = "dict" /\ "detailedDeploymentsFormatted" \in DOMAIN r.d
        THEN r.d["detailedDeploymentsFormatted"]
        ELSE <<>>

\* The number of blocks of environment k: its section, then one block per deployment,
\* or one block saying there is none or the call failed.
SegmentLen(k) == 1 + (IF Deployments(k) = <<>> THEN 1 ELSE Len(Deployments(k)))

\* The position in blocks of the section block of environment k.
RECURSIVE Start(_)
Start(k) == IF k = 1 THEN 2 ELSE Start(k - 1) + SegmentLen(k - 1)

\* The value of field of object o when it is there and not empty, else fallback.
Shown(o, field, fallback) ==
    IF field \in DOMAIN o /\ o[field] \notin {None, ""} THEN o[field] ELSE fallback

\* The button of the block at position p.
Button(p) == blocks[p].elements[1]

\* The pairs (k, m): deployment m of environment k has been rendered.
Rendered == { km \in (1..Processed) \X (1..MaxBlocks) : km[2] <= Len(Deployments(km[1])) }

\* C6: the button of a deployment has style "primary" exactly when the deployment's
\* state is the string "Primary"; with any other state, or none, it has style "danger".
C6_ButtonStyle ==
    \A km \in Rendered :
        LET dep == Deployments(km[1])[km[2]]
            style == Button(Start(km[1]) + km[2]).style
        IN  IF "state" \in DOMAIN dep /\ dep["state"] = "Primary"
            THEN style = "primary"
            ELSE style = "danger"

\* C6's case: one environment whose deployments have the states "Primary" and
\* "primary" and no state at all has been rendered.
C6_Witness ==
    /\ Processed = 1 /\ Len(Deployments(1)) = 3
    /\ Get(Deployments(1)[1], "state") = "Primary"
    /\ Get(Deployments(1)[2], "state") = "primary"
    /\ "state" \notin DOMAIN Deployments(1)[3]
    /\ Button(Start(1) + 1).style = "primary"

\* C7: decoding a button's value gives an object with exactly the three entries it
\* was built from: id, the id shown for the environment (its id, or "Unknown ID" when
\* it has none); region, the environment's region; deployment, the deployment's id
\* (null when it has none).
C7_ButtonValueRoundTrip ==
    \A km \in Rendered :
        LET env == aggregated_results[km[1]]
            dep == Deployments(km[1])[km[2]]
            decoded == JsonLoads(Button(Start(km[1]) + km[2]).value)
        IN  /\ DOMAIN decoded = {"id", "region", "deployment"}
            /\ decoded["id"] = Shown(env, "id", "Unknown ID")
            /\ decoded["region"] = env["region"]
            /\ decoded["deployment"] = (IF "id" \in DOMAIN dep THEN dep["id"] ELSE None)

\* C7's case: a button for an environment and a deployment whose ids need escaping,
\* and a button for a deployment without id, have been rendered.
C7_Witness ==
    /\ Processed = 1 /\ Len(Deployments(1)) = 2
    /\ Get(aggregated_results[1], "id") = "q\"2"
    /\ Get(Deployments(1)[1], "id") = "d\\2"
    /\ "id" \notin DOMAIN Deployments(1)[2]
    /\ Len(blocks) = 4

\* An item without the three members the aggregator attaches.
Strip(item) ==
    [k \in DOMAIN item \ {"region", "_baseUrl", "_headers"} |-> item[k]]

\* The items regions 1..n returned, in region order then response order.
RECURSIVE ReturnedUpTo(_)
ReturnedUpTo(n) == IF n = 0 THEN <<>> ELSE ReturnedUpTo(n - 1) \o Returned(n)

\* The region whose answer holds item k of the aggregated sequence.
Origin(k) == CHOOSE n \in 1..Len(region_results) :
                 Len(ReturnedUpTo(n - 1)) < k /\ k <= Len(ReturnedUpTo(n))

\* C8: the aggregated sequence is the concatenation, in region config order, of the
\* items each region returned, in response order; a region that was skipped, whose
\* call failed or whose answer holds no items contributes nothing and the others
\* still contribute.
C8_AggregationOrder ==
    LET all == ReturnedUpTo(Len(region_results))
    IN  /\ Len(aggregated_results) = Len(all)
        /\ \A k \in 1..Len(all) :
               /\ Strip(aggregated_results[k]) = Strip(all[k])
               /\ aggregated_results[k]["region"] = API_CONFIGS[Origin(k)].Region

\* C8's case: the first region returned one item and the second another one.
C8_Witness ==
    /\ AggregationOver
    /\ Len(Returned(1)) = 1 /\ Len(Returned(2)) = 1
    /\ Returned(1)[1] # Returned(2)[1]
    /\ Len(aggregated_results) = 2

\* C9: the blocks are one header block and then, per environment in input order, one
\* section block of that environment followed by one error section (call failed), one
\* "no deployments" section (no list, or an empty one) or one action block per
\* deployment in response order; every environment gets its blocks whatever
\* happened to the others.
C9_BlockLayout ==
    (pc \in {"format", "done"} /\ blocks # <<>>)
    => /\ blocks[1].type = "header"
       /\ Len(blocks) = Start(Processed + 1) - 1
       /\ pc = "done" => Processed = Len(aggregated_results)
       /\ \A k \in 1..Processed :
              LET env == aggregated_results[k]
                  p == Start(k)
                  r == deployment_results[k]
              IN  /\ blocks[p].type = "section"
                  /\ blocks[p].text.text[3] =
                         Shown(env, "Name", Shown(env, "name", "Unknown Name"))
                  /\ blocks[p].text.text[5] = Shown(env, "id", "Unknown ID")
                  /\ IF r = PyNone
                     THEN /\ SegmentLen(k) = 2
                          /\ blocks[p + 1].type = "section"
                          /\ blocks[p + 1].text.text = <<"*Error fetching deployments.*">>
                     ELSE IF Deployments(k) = <<>>
                     THEN /\ SegmentLen(k) = 2
                          /\ blocks[p + 1].type = "section"
                          /\ blocks[p + 1].text.text \in
                                 { <<"*No deployments found.*">>,
                                   <<"_No deployments found for this environment._">> }
                     ELSE \A m \in 1..Len(Deployments(k)) :
                              /\ blocks[p + m].type = "actions"
                              /\ Len(blocks[p + m].elements) = 1
                              /\ Button(p + m).text.text =
                                     <<"Get Logs for ",
                                       Shown(Deployments(k)[m], "name", "Unnamed Deployment")>>

\* C9's case: the deployments call of the first environment failed and the second
\* environment has its section and its button.
C9_Witness ==
    /\ pc = "done" /\ Processed = 2
    /\ deployment_results[1] = PyNone
    /\ Len(Deployments(2)) = 1
    /\ Len(blocks) = 5 /\ blocks[5].type = "actions"

\* The number of regions queried.
Queried == Cardinality({ n \in 1..Len(region_results) : ~region_results[n].skipped })

\* The deployments query of environment k.
DeploymentsCall(k) == calls[Queried + k]

\* C10: every item handed to the formatter carries the region, the base URL and the
\* headers of the region that returned it; its deployments query goes to that base
\* URL with that region's Authorization and a zn-env-id that is the id shown for the
\* item; and the headers attached to the items never hold a zn-env-id.
C10_ItemTransport ==
    (pc \in {"format", "done"} /\ blocks # <<>>)
    => \A k \in 1..Len(aggregated_results) :
           LET env == aggregated_results[k]
               config == API_CONFIGS[Origin(k)]
               attached == heap[env["_headers"]]
           IN  /\ env["region"] = config.Region
               /\ env["_baseUrl"] = config.BaseUrl
               /\ DOMAIN attached = {"Authorization", "content-type"}
               /\ attached["Authorization"] = environ[config.KeyName]
               /\ attached["content-type"] = "application/json"
               /\ k <= Processed
                  => LET c == DeploymentsCall(k)
                     IN  /\ IsGet(c)
                         /\ c.base_url = config.BaseUrl
                         /\ c.endpoint.path = "/deployments"
                         /\ DOMAIN c.headers = {"Authorization", "content-type", "zn-env-id"}
                         /\ c.headers["Authorization"] = environ[config.KeyName]
                         /\ c.headers["zn-env-id"] = Shown(env, "id", "Unknown ID")
                         /\ ("id" \in DOMAIN env /\ env["id"] \notin {None, ""})
                            => c.headers["zn-env-id"] = env["id"]

\* C10's case: two items of one region, with different ids, both queried for their
\* deployments.
C10_Witness ==
    /\ AggregationOver /\ Len(Returned(2)) = 2 /\ Processed = 2
    /\ Get(aggregated_results[1], "id") = "e1"
    /\ Get(aggregated_results[2], "id") = "q\"2"
    /\ DeploymentsCall(2).headers["zn-env-id"] = "q\"2"

====
